---- MODULE Spec2Model ----
(***************************************************************************)
(* Verification model of server.py: a threaded HTTP/1.1 server on raw      *)
(* sockets.                                                                *)
(*                                                                         *)
(*   Spec        one connection: handle_client driving recv_request,       *)
(*               dispatch_request and the keep-alive decision              *)
(*   SpecStore   several connection threads running the /data handlers on  *)
(*               the shared data_store under data_lock                     *)
(*   SpecStatic  the path computation of handle_static                     *)
(*                                                                         *)
(* Byte strings read from the socket are modelled by their length; what    *)
(* the client put in them (request line, header fields) is chosen when     *)
(* recv_request parses the header block.                                   *)
(***************************************************************************)
EXTENDS Integers, Sequences, FiniteSets, TLC

(***************************************************************************)
(* Configuration (server.py:16-20).  The sizes are scaled down; the order  *)
(* READ_CHUNK < MAX_REQUEST_SIZE < MAX_REQUEST_SIZE + HEADER_SLACK of the  *)
(* source is kept.                                                         *)
(***************************************************************************)
\* MAX_REQUEST_SIZE = 1024 * 1024 * 5 in the source
MAX_REQUEST_SIZE == 3

\* READ_CHUNK = 4096 in the source
READ_CHUNK == 2

\* the 8192 bytes allowed on top of MAX_REQUEST_SIZE while reading headers
HEADER_SLACK == 2

\* MAX_KEEP_ALIVE_REQUESTS = 100 in the source
MAX_KEEP_ALIVE_REQUESTS == 2

\* len(b'\r\n\r\n')
TERMINATOR_LEN == 4

\* threads of SpecStore, and requests they serve in all
NumThreads == 2

MaxOps == 3

\* longest subpath SpecStatic draws
MaxPathLen == 4

\* records created in a behaviour of SpecDispatch
MaxCreated == 4

VARIABLES
    \* ---- one connection (handle_client / recv_request) ----
    pc,                   \* where handle_client is
    keep_alive_requests,  \* server.py:278
    data,                 \* len(data) in recv_request's header loop
    request_line,         \* tokens of header_lines[0]
    version,              \* server.py:317
    headers,              \* the headers dict (the fields the server reads)
    content_length,       \* server.py:97
    rest,                 \* len(rest), server.py:85
    body,                 \* len(body)
    to_read,              \* server.py:101
    resp,                 \* status code of the response about to be sent
    err,                  \* how the current recv_request / parse failed
    readSends,            \* sendall calls since the current read began
    readDispatched,       \* dispatch_request was called for the current read
    answered,             \* responses of requests written successfully
    closes,               \* conn.close() calls
    \* ---- the shared store ----
    data_store,           \* server.py:23
    data_lock,            \* server.py:24: 0 when free, else the holder
    assigned,             \* ids handed out by creates, in order (history)
    \* ---- SpecStore threads ----
    tpc,                  \* where each thread is in its handler
    top,                  \* the operation it runs
    targ,                 \* the id in the path, for get and delete
    tlocal,               \* new_id (server.py:142)
    tidx,                 \* the loop index (server.py:164, 199)
    tresult,              \* status of the response
    tdone,                \* requests taken so far, over all threads
    \* ---- SpecStatic ----
    spc,                  \* "start", then "done" once the request is served
    starget,              \* the request target
    subpath,              \* server.py:253
    safe_path,            \* server.py:217
    full_path             \* server.py:218

connVars == <<pc, keep_alive_requests, data, request_line, version, headers,
              content_length, rest, body, to_read, resp, err, readSends,
              readDispatched, answered, closes>>

storeVars == <<data_store, data_lock, assigned>>

threadVars == <<tpc, top, targ, tlocal, tidx, tresult, tdone>>

staticVars == <<spc, starget, subpath, safe_path, full_path>>

vars == <<connVars, storeVars, threadVars, staticVars>>

(***************************************************************************)
(* Small helpers                                                           *)
(***************************************************************************)
Min(a, b) == IF a < b THEN a ELSE b

Range(s) == {s[i] : i \in 1..Len(s)}

\* a header that the request does not carry
NoHdr == "<absent>"

(***************************************************************************)
(* String conversions the server applies                                   *)
(***************************************************************************)
\* str.upper() left out: the method is compared as the client wrote it
UpperIdentity(tok) == tok

\* str.upper() on the method token (server.py:315)
Upper(tok) ==
    CASE tok = "get" -> "GET"
      [] tok = "post" -> "POST"
      [] tok = "options" -> "OPTIONS"
      [] OTHER -> tok

\* str.lower() left out: the value is compared as the client wrote it
LowerIdentity(v) == v

\* str.lower() on the Connection value (server.py:358)
Lower(v) ==
    CASE v = "Close" -> "close"
      [] v = "CLOSE" -> "close"
      [] v = "Keep-Alive" -> "keep-alive"
      [] OTHER -> v

\* k.strip().title() on a header name (server.py:95)
Title(name) ==
    CASE name \in {"connection", "CONNECTION", "Connection"} -> "Connection"
      [] name \in {"content-length", "CONTENT-LENGTH", "Content-Length"} -> "Content-Length"
      [] name \in {"content-type", "Content-type", "Content-Type"} -> "Content-Type"
      [] OTHER -> name

\* headers.get(name, default)
HeaderGet(h, name, default) ==
    IF name \in DOMAIN h THEN h[name] ELSE default

\* the decimal strings int() accepts among the values the model sends
Numerals == {ToString(n) : n \in 0..(MAX_REQUEST_SIZE + 1)}

\* int(s) for a decimal string
IntOf(s) == CHOOSE n \in 0..(MAX_REQUEST_SIZE + 1) : ToString(n) = s

(***************************************************************************)
(* The shared record collection (server.py:22-24, 141-144, 163-180,        *)
(* 198-208).  A record is [id, payload]; the payload of the k-th create is *)
(* the token k, so two creates never carry the same payload.               *)
(***************************************************************************)
\* new_id = len(data_store) + 1
NewId(store) == Len(store) + 1

\* item = {'id': new_id, 'payload': payload}; data_store.append(item)
AppendItem(store, new_id, payload) ==
    Append(store, [id |-> new_id, payload |-> payload])

\* the loop keeps going after a match: the last record with the id is taken
LastIndex(store, item_id) ==
    IF \E i \in 1..Len(store) : store[i].id = item_id
    THEN CHOOSE i \in 1..Len(store) :
            /\ store[i].id = item_id
            /\ \A j \in (i + 1)..Len(store) : store[j].id # item_id
    ELSE 0

\* index of the first record whose id is item_id, 0 when there is none
FirstIndex(store, item_id) ==
    IF \E i \in 1..Len(store) : store[i].id = item_id
    THEN CHOOSE i \in 1..Len(store) :
            /\ store[i].id = item_id
            /\ \A j \in 1..(i - 1) : store[j].id # item_id
    ELSE 0

\* data_store.pop(i)
Pop(store, i) ==
    [j \in 1..(Len(store) - 1) |-> IF j < i THEN store[j] ELSE store[j + 1]]

(***************************************************************************)
(* Request targets and paths are sequences of tokens: "/" or a piece of    *)
(* text between separators ("?" opens the query).                          *)
(***************************************************************************)
\* index of the first token of s, from position i on, that is in set; 0 if none
RECURSIVE FirstIn(_, _, _)
FirstIn(s, i, set) ==
    IF i > Len(s) THEN 0
    ELSE IF s[i] \in set THEN i
    ELSE FirstIn(s, i + 1, set)

StartsWith(s, prefix) ==
    /\ Len(s) >= Len(prefix)
    /\ SubSeq(s, 1, Len(prefix)) = prefix

\* urlparse(path) raises ValueError("Invalid IPv6 URL") for a target that
\* opens with // and has an unbalanced bracket in the authority
UrlParseRaises(target) ==
    /\ StartsWith(target, <<"/", "/">>)
    /\ LET r == SubSeq(target, 3, Len(target))
           k == FirstIn(r, 1, {"/", "?"})
           netloc == IF k = 0 THEN r ELSE SubSeq(r, 1, k - 1)
       IN  ("[" \in Range(netloc)) # ("]" \in Range(netloc))

\* urlparse(path).path: the authority after a leading // and the query are
\* cut off; nothing is percent-decoded
PathOnly(target) ==
    LET noNet == IF StartsWith(target, <<"/", "/">>)
                 THEN LET r == SubSeq(target, 3, Len(target))
                          k == FirstIn(r, 1, {"/", "?"})
                      IN  IF k = 0 THEN <<>> ELSE SubSeq(r, k, Len(r))
                 ELSE target
        q == FirstIn(noNet, 1, {"?"})
    IN  IF q = 0 THEN noNet ELSE SubSeq(noNet, 1, q - 1)

\* [p for p in path_only.split('/') if p != '']
PathParts(path_only) == SelectSeq(path_only, LAMBDA tok : tok # "/")

\* segments for which int() succeeds
IsNumeric(tok) == tok \in Numerals

(***************************************************************************)
(* handle_static's path computation (server.py:217-218)                    *)
(***************************************************************************)
\* STATIC_DIR = './static'
STATIC_DIR == <<".", "/", "static">>

\* urllib.parse.unquote
UnquoteTok(tok) ==
    CASE tok = "%2e%2e" -> ".."
      [] tok = "%2e" -> "."
      [] tok = "%2f" -> "/"
      [] OTHER -> tok

Unquote(s) == [i \in 1..Len(s) |-> UnquoteTok(s[i])]

\* the loop of posixpath.normpath over the components
RECURSIVE NormComps(_, _, _)
NormComps(comps, new_comps, initial_slashes) ==
    IF comps = <<>> THEN new_comps
    ELSE LET comp == Head(comps)
             n == Len(new_comps)
         IN  IF comp = "."
             THEN NormComps(Tail(comps), new_comps, initial_slashes)
             ELSE IF \/ comp # ".."
                     \/ (initial_slashes = 0 /\ n = 0)
                     \/ (n > 0 /\ new_comps[n] = "..")
             THEN NormComps(Tail(comps), Append(new_comps, comp), initial_slashes)
             ELSE IF n > 0
             THEN NormComps(Tail(comps), SubSeq(new_comps, 1, n - 1), initial_slashes)
             ELSE NormComps(Tail(comps), new_comps, initial_slashes)

\* '/'.join(comps)
RECURSIVE JoinSlash(_)
JoinSlash(comps) ==
    IF comps = <<>> THEN <<>>
    ELSE IF Len(comps) = 1 THEN comps
    ELSE <<Head(comps), "/">> \o JoinSlash(Tail(comps))

\* os.path.normpath (posixpath)
NormPath(path) ==
    IF path = <<>> THEN <<".">>
    ELSE LET initial_slashes ==
                 IF ~StartsWith(path, <<"/">>) THEN 0
                 ELSE IF StartsWith(path, <<"/", "/">>) /\ ~StartsWith(path, <<"/", "/", "/">>)
                 THEN 2
                 ELSE 1
             comps == NormComps(PathParts(path), <<>>, initial_slashes)
             joined == [i \in 1..initial_slashes |-> "/"] \o JoinSlash(comps)
         IN  IF joined = <<>> THEN <<".">> ELSE joined

\* str.lstrip(os.sep)
RECURSIVE LStripSep(_)
LStripSep(path) ==
    IF path # <<>> /\ Head(path) = "/" THEN LStripSep(Tail(path)) ELSE path

\* safe_path = os.path.normpath(unquote(subpath)).lstrip(os.sep)
SafePath(sub) == LStripSep(NormPath(Unquote(sub)))

\* os.path.join(a, b)
PathJoin(a, b) ==
    IF StartsWith(b, <<"/">>) THEN b
    ELSE IF a = <<>> \/ a[Len(a)] = "/" THEN a \o b
    ELSE a \o <<"/">> \o b

\* full_path = os.path.join(STATIC_DIR, safe_path)
FullPath(sub) == PathJoin(STATIC_DIR, SafePath(sub))

(***************************************************************************)
(* Route handlers and the dispatcher, as run by one thread without         *)
(* interruption.  A result is the response's status code with the store    *)
(* and the history of assigned ids after the call.  env carries what the   *)
(* handler finds outside the request: whether the body is JSON, whether    *)
(* the static file exists and can be read.                                 *)
(***************************************************************************)
Result(status, store, asg) ==
    [status |-> status, store |-> store, assigned |-> asg, raised |-> FALSE]

\* 'application/json' in ct
HasJson(ct) == ct \in {"application/json", "application/json; charset=utf-8"}

\* handle_root
handle_root(method, store, asg) ==
    IF method # "GET" THEN Result(405, store, asg) ELSE Result(200, store, asg)

\* handle_echo
handle_echo(method, store, asg) ==
    IF method # "GET" THEN Result(405, store, asg) ELSE Result(200, store, asg)

\* handle_post_data
handle_post_data(method, hdrs, bodyLen, store, asg, env) ==
    IF method \notin {"POST", "PUT"} THEN Result(405, store, asg)
    ELSE IF ~HasJson(HeaderGet(hdrs, "Content-Type", "")) THEN Result(400, store, asg)
    ELSE IF bodyLen > 0 /\ ~env.json THEN Result(400, store, asg)
    ELSE LET new_id == NewId(store)
         IN  Result(201, AppendItem(store, new_id, Len(asg) + 1), Append(asg, new_id))

\* handle_get_data
handle_get_data(method, path_parts, store, asg) ==
    IF method # "GET" THEN Result(405, store, asg)
    ELSE IF Len(path_parts) = 2 /\ path_parts[1] = "data"
    THEN IF ~IsNumeric(path_parts[2]) THEN Result(400, store, asg)
         ELSE IF FirstIndex(store, IntOf(path_parts[2])) # 0 THEN Result(200, store, asg)
         ELSE Result(404, store, asg)
    ELSE Result(200, store, asg)

\* handle_delete_data
handle_delete_data(method, path_parts, store, asg) ==
    IF method # "DELETE" THEN Result(405, store, asg)
    ELSE IF Len(path_parts) = 2 /\ path_parts[1] = "data"
    THEN IF ~IsNumeric(path_parts[2]) THEN Result(400, store, asg)
         ELSE LET i == FirstIndex(store, IntOf(path_parts[2]))
              IN  IF i # 0 THEN Result(200, Pop(store, i), asg)
                  ELSE Result(404, store, asg)
    ELSE Result(400, store, asg)

\* handle_static: the status; the path it tests and opens is FullPath(sub)
handle_static(method, sub, store, asg, env) ==
    IF method # "GET" THEN Result(405, store, asg)
    ELSE IF ~env.isfile THEN Result(404, store, asg)
    ELSE IF ~env.readok THEN Result(500, store, asg)
    ELSE Result(200, store, asg)

\* path_only[len('/static/'):]
StaticSubpath(path_only) == SubSeq(path_only, 4, Len(path_only))

\* dispatch_request; raised tells that the call ended in an exception
dispatch_request(method, target, hdrs, bodyLen, store, asg, env) ==
    IF UrlParseRaises(target)
    THEN [status |-> 0, store |-> store, assigned |-> asg, raised |-> TRUE]
    ELSE LET path_only == PathOnly(target)
             path_parts == PathParts(path_only)
         IN  IF path_only = <<"/">>
             THEN handle_root(method, store, asg)
             ELSE IF /\ Len(path_only) >= 2
                     /\ path_only[1] = "/"
                     /\ path_only[2] \in {"echo", "echoes"}
             THEN handle_echo(method, store, asg)
             ELSE IF StartsWith(path_only, <<"/", "static", "/">>)
             THEN handle_static(method, StaticSubpath(path_only), store, asg, env)
             ELSE IF path_only = <<"/", "data">> /\ method \in {"POST", "PUT"}
             THEN handle_post_data(method, hdrs, bodyLen, store, asg, env)
             ELSE IF path_parts # <<>> /\ path_parts[1] = "data"
             THEN IF method = "GET"
                  THEN handle_get_data(method, path_parts, store, asg)
                  ELSE IF method = "DELETE"
                  THEN handle_delete_data(method, path_parts, store, asg)
                  ELSE IF method \in {"POST", "PUT"}
                  THEN handle_post_data(method, hdrs, bodyLen, store, asg, env)
                  ELSE Result(404, store, asg)
             ELSE Result(404, store, asg)

Envs == [json : BOOLEAN, isfile : BOOLEAN, readok : BOOLEAN]

(***************************************************************************)
(* What a client may send                                                  *)
(***************************************************************************)
Methods == {"GET", "POST", "DELETE", "OPTIONS", "options"}

Targets ==
    { <<"/">>,
      <<"/", "data">>,
      <<"/", "data", "/", "1">>,
      <<"/", "static", "/", "a">>,
      <<"/", "/", "[">> }

Versions == {"HTTP/1.0", "HTTP/1.1"}

\* request_line.split(): no token, one, two (no version) or three
RequestLines ==
    {<<>>, <<"GET">>}
        \cup {<<"GET", t>> : t \in Targets}
        \cup {<<m, t, v>> : m \in Methods, t \in Targets, v \in Versions}

ConnectionValues == {"close", "Close", "keep-alive", "Keep-Alive"}

\* header lines as <<name, value>>, names as the client spells them
ConnectionLines ==
    {<<>>} \cup {<< <<n, v>> >> : n \in {"Connection", "connection"}, v \in ConnectionValues}

ContentLengthLines ==
    {<<>>} \cup {<< <<"content-length", v>> >> : v \in Numerals \cup {"abc"}}

ContentTypeLines ==
    {<<>>} \cup {<< <<"Content-Type", v>> >> : v \in {"application/json"}}

HeaderBlocks ==
    {c \o l \o t : c \in ConnectionLines, l \in ContentLengthLines, t \in ContentTypeLines}

(***************************************************************************)
(* recv_request (server.py:67-111)                                         *)
(***************************************************************************)
\* the loop over header_lines[1:] (server.py:88-95); a later line wins
RECURSIVE BuildHeaders(_, _)
BuildHeaders(lines, h) ==
    IF lines = <<>> THEN h
    ELSE BuildHeaders(Tail(lines), (Title(Head(lines)[1]) :> Head(lines)[2]) @@ h)

\* len(data) > MAX_REQUEST_SIZE + 8192 (server.py:83)
HeadersTooLarge(n) == n > MAX_REQUEST_SIZE + HEADER_SLACK

\* the limit on the declared length is not enforced
BodyTooLargeNever(n) == FALSE

\* content_length > MAX_REQUEST_SIZE (server.py:98)
BodyTooLarge(n) == n > MAX_REQUEST_SIZE

\* a new call of recv_request: its locals start afresh (server.py:73).
\* request_line, headers and body of handle_client are not read again before
\* the call's return assigns them, so they start afresh with it; version
\* (server.py:317) keeps the last request's value
NewRead ==
    /\ data' = 0
    /\ request_line' = <<>>
    /\ headers' = <<>>
    /\ content_length' = 0
    /\ rest' = 0
    /\ body' = 0
    /\ to_read' = 0

\* a timeout or a closed stream answered with a 400 like any other failure
ReadFailsAnswersAll(kind) ==
    /\ err' = kind
    /\ IF kind = "recv_fault"
       THEN pc' = "send_500" /\ resp' = 500
       ELSE pc' = "send_400" /\ resp' = 400

\* every failed read ends the connection without a response
ReadFailsSilent(kind) ==
    /\ err' = kind
    /\ pc' = "close"
    /\ resp' = 0

\* an exception leaves recv_request: handle_client's except clauses
\* (server.py:285-310)
ReadFails(kind) ==
    /\ err' = kind
    /\ IF kind \in {"timeout", "peer_closed"}
       THEN pc' = "close" /\ resp' = 0
       ELSE IF kind = "recv_fault"
       THEN pc' = "send_500" /\ resp' = 500
       ELSE pc' = "send_400" /\ resp' = 400

\* conn.recv raises socket.timeout (server.py:78-79)
RecvHeadersTimeout ==
    /\ pc = "recv_headers"
    /\ ReadFails("timeout")
    /\ UNCHANGED <<keep_alive_requests, data, request_line, version, headers, content_length,
                   rest, body, to_read, readSends, readDispatched, answered, closes>>
    /\ UNCHANGED <<storeVars, threadVars, staticVars>>

\* conn.recv returns b'' or raises ConnectionResetError (server.py:80-81)
RecvHeadersPeerClosed ==
    /\ pc = "recv_headers"
    /\ ReadFails("peer_closed")
    /\ UNCHANGED <<keep_alive_requests, data, request_line, version, headers, content_length,
                   rest, body, to_read, readSends, readDispatched, answered, closes>>
    /\ UNCHANGED <<storeVars, threadVars, staticVars>>

\* conn.recv raises another OSError
RecvHeadersFault ==
    /\ pc = "recv_headers"
    /\ ReadFails("recv_fault")
    /\ UNCHANGED <<keep_alive_requests, data, request_line, version, headers, content_length,
                   rest, body, to_read, readSends, readDispatched, answered, closes>>
    /\ UNCHANGED <<storeVars, threadVars, staticVars>>

\* int() takes every Content-Length value: one that is no number counts as 0
ParseHeadersLenient(nrest, rl, lines) ==
    LET h == BuildHeaders(lines, <<>>)
        cl == HeaderGet(h, "Content-Length", "0")
        n == IF cl \in Numerals THEN IntOf(cl) ELSE 0
    IN  /\ rest' = nrest
        /\ IF BodyTooLarge(n)
           THEN /\ ReadFails("body_too_large")
                /\ headers' = h
                /\ content_length' = n
                /\ UNCHANGED <<request_line, body, to_read>>
           ELSE /\ request_line' = rl
                /\ headers' = h
                /\ content_length' = n
                /\ body' = nrest
                /\ to_read' = n - nrest
                /\ pc' = IF n - nrest > 0 THEN "recv_body" ELSE "parse"
                /\ UNCHANGED <<err, resp>>

\* server.py:85-101, once the terminator is in data: nrest bytes follow it.
\* headers is the dict built at server.py:88-95, before int() is applied to
\* its Content-Length; handle_client's request_line is assigned when the
\* call returns
ParseHeaders(nrest, rl, lines) ==
    LET h == BuildHeaders(lines, <<>>)
        cl == HeaderGet(h, "Content-Length", "0")
    IN  /\ rest' = nrest
        /\ IF cl \notin Numerals
           THEN /\ ReadFails("bad_content_length")
                /\ headers' = h
                /\ UNCHANGED <<request_line, content_length, body, to_read>>
           ELSE IF BodyTooLarge(IntOf(cl))
           THEN /\ ReadFails("body_too_large")
                /\ headers' = h
                /\ content_length' = IntOf(cl)
                /\ UNCHANGED <<request_line, body, to_read>>
           ELSE /\ request_line' = rl
                /\ headers' = h
                /\ content_length' = IntOf(cl)
                /\ body' = nrest
                /\ to_read' = IntOf(cl) - nrest
                /\ pc' = IF IntOf(cl) - nrest > 0 THEN "recv_body" ELSE "parse"
                /\ UNCHANGED <<err, resp>>

\* conn.recv(READ_CHUNK) returns c bytes (server.py:77, 82-84), and the
\* loop test (server.py:75) finds the terminator in data, ending at byte e,
\* or not.  data is split into header_part and rest (server.py:85) and not
\* used again
RecvHeadersChunk ==
    /\ pc = "recv_headers"
    /\ \E c \in 1..READ_CHUNK :
         IF HeadersTooLarge(data + c)
         THEN /\ data' = data + c
              /\ ReadFails("headers_too_large")
              /\ UNCHANGED <<request_line, headers, content_length, rest, body, to_read>>
         ELSE \/ /\ data' = data + c
                 /\ UNCHANGED <<pc, err, resp, request_line, headers,
                                content_length, rest, body, to_read>>
              \/ \E e \in (data + 1)..(data + c) :
                   /\ e >= TERMINATOR_LEN
                   /\ data' = 0
                   /\ \E rl \in RequestLines, lines \in HeaderBlocks :
                        ParseHeaders(data + c - e, rl, lines)
    /\ UNCHANGED <<keep_alive_requests, version, readSends, readDispatched, answered, closes>>
    /\ UNCHANGED <<storeVars, threadVars, staticVars>>

\* the body loop (server.py:102-110): timeout, end of stream, fault
RecvBodyFails ==
    /\ pc = "recv_body"
    /\ \E kind \in {"timeout", "peer_closed", "recv_fault"} : ReadFails(kind)
    /\ UNCHANGED <<keep_alive_requests, data, request_line, version, headers, content_length,
                   rest, body, to_read, readSends, readDispatched, answered, closes>>
    /\ UNCHANGED <<storeVars, threadVars, staticVars>>

\* conn.recv(min(READ_CHUNK, to_read)) returns c bytes
RecvBodyChunk ==
    /\ pc = "recv_body"
    /\ \E c \in 1..Min(READ_CHUNK, to_read) :
         /\ body' = body + c
         /\ to_read' = to_read - c
         /\ pc' = IF to_read - c > 0 THEN "recv_body" ELSE "parse"
    /\ UNCHANGED <<keep_alive_requests, data, request_line, version, headers,
                   content_length, rest, resp, err, readSends, readDispatched,
                   answered, closes>>
    /\ UNCHANGED <<storeVars, threadVars, staticVars>>

(***************************************************************************)
(* handle_client (server.py:275-384)                                       *)
(***************************************************************************)
\* method = parts[0].upper() (server.py:315)
Method(rl) == Upper(rl[1])

\* version = parts[2] if len(parts) > 2 else 'HTTP/1.1' (server.py:317)
Version(rl) == IF Len(rl) > 2 THEN rl[3] ELSE "HTTP/1.1"

\* server.py:312-346: split the request line, then build the 204 for
\* OPTIONS or call dispatch_request
ParseAndDispatch ==
    /\ pc = "parse"
    /\ IF Len(request_line) < 2
       THEN /\ err' = "malformed_line"
            /\ resp' = 400
            /\ pc' = "send_400"
            /\ UNCHANGED <<version, readDispatched, data_store, assigned>>
       ELSE IF Method(request_line) = "OPTIONS"
       THEN /\ version' = Version(request_line)
            /\ resp' = 204
            /\ pc' = "send_options"
            /\ UNCHANGED <<err, readDispatched, data_store, assigned>>
       ELSE \E env \in Envs :
              LET r == dispatch_request(Method(request_line), request_line[2], headers,
                                        body, data_store, assigned, env)
              IN  /\ version' = Version(request_line)
                  /\ resp' = IF r.raised THEN 500 ELSE r.status
                  /\ data_store' = r.store
                  /\ assigned' = r.assigned
                  /\ readDispatched' = TRUE
                  /\ pc' = "send_resp"
                  /\ UNCHANGED err
    /\ UNCHANGED <<keep_alive_requests, data, request_line, headers, content_length,
                   rest, body, to_read, readSends, answered, closes>>
    /\ UNCHANGED <<data_lock, threadVars, staticVars>>

\* the cap compared with > in place of >=
CapReachedOffByOne(n) == n > MAX_KEEP_ALIVE_REQUESTS

\* the request cap (server.py:372)
CapReached(n) == n >= MAX_KEEP_ALIVE_REQUESTS

\* the HTTP/1.0 rule left out of the keep-alive decision
KeepAliveIgnoresVersion(v, h, n) ==
    /\ Lower(HeaderGet(h, "Connection", "")) # "close"
    /\ n < MAX_KEEP_ALIVE_REQUESTS

\* server.py:358-373: the keep-alive decision, n being the counter after
\* its increment
KeepAlive(v, h, n) ==
    LET connection_header == Lower(HeaderGet(h, "Connection", ""))
    IN  /\ ~(v = "HTTP/1.0" /\ connection_header # "keep-alive")
        /\ connection_header # "close"
        /\ ~CapReached(n)

\* server.py:357-377: count the request, then loop or break
AfterResponse ==
    /\ keep_alive_requests' = keep_alive_requests + 1
    /\ IF KeepAlive(version, headers, keep_alive_requests + 1)
       THEN /\ pc' = "recv_headers"
            /\ resp' = 0
            /\ readSends' = 0
            /\ readDispatched' = FALSE
            /\ NewRead
       ELSE /\ pc' = "close"
            /\ readSends' = readSends + 1
            /\ UNCHANGED <<data, resp, readDispatched, request_line, headers,
                           content_length, rest, body, to_read>>
    /\ UNCHANGED version

\* conn.sendall(resp) for OPTIONS (server.py:336-339): a failure is passed over
SendOptions ==
    /\ pc = "send_options"
    /\ \E ok \in BOOLEAN :
         answered' = IF ok THEN answered + 1 ELSE answered
    /\ AfterResponse
    /\ UNCHANGED <<err, closes>>
    /\ UNCHANGED <<storeVars, threadVars, staticVars>>

\* conn.sendall(resp) succeeds for a dispatched request (server.py:348-349)
SendResp ==
    /\ pc = "send_resp"
    /\ answered' = answered + 1
    /\ AfterResponse
    /\ UNCHANGED <<err, closes>>
    /\ UNCHANGED <<storeVars, threadVars, staticVars>>

\* conn.sendall(resp) raises (server.py:350-355)
SendRespFails ==
    /\ pc = "send_resp"
    /\ pc' = "close"
    /\ err' = "write_failure"
    /\ readSends' = readSends + 1
    /\ UNCHANGED <<keep_alive_requests, data, request_line, version, headers, content_length,
                   rest, body, to_read, resp, readDispatched, answered, closes>>
    /\ UNCHANGED <<storeVars, threadVars, staticVars>>

\* the 400 or 500 for a failed read (server.py:297-301, 306-310, 320-324):
\* sent or not, the loop is left
SendError ==
    /\ pc \in {"send_400", "send_500"}
    /\ pc' = "close"
    /\ readSends' = readSends + 1
    /\ UNCHANGED <<keep_alive_requests, data, request_line, version, headers, content_length,
                   rest, body, to_read, resp, err, readDispatched, answered, closes>>
    /\ UNCHANGED <<storeVars, threadVars, staticVars>>

\* conn.close() never returns
CloseStalls ==
    /\ pc = "close"
    /\ UNCHANGED vars

\* the socket is closed but the handler does not end: it closes again
CloseAgain ==
    /\ pc = "close"
    /\ pc' = "close"
    /\ closes' = closes + 1
    /\ UNCHANGED <<keep_alive_requests, data, request_line, version, headers, content_length,
                   rest, body, to_read, resp, err, readSends, readDispatched, answered>>
    /\ UNCHANGED <<storeVars, threadVars, staticVars>>

\* finally: conn.close() (server.py:379-383)
Close ==
    /\ pc = "close"
    /\ pc' = "closed"
    /\ closes' = closes + 1
    /\ UNCHANGED <<keep_alive_requests, data, request_line, version, headers, content_length,
                   rest, body, to_read, resp, err, readSends, readDispatched, answered>>
    /\ UNCHANGED <<storeVars, threadVars, staticVars>>

(***************************************************************************)
(* The /data handlers step by step, one thread per connection              *)
(* (server.py:396-398), for SpecStore.  A thread is idle between requests; *)
(* the requests are well-formed, so each reaches its locked region.        *)
(***************************************************************************)
Threads == 1..NumThreads

\* the lock excludes nobody
LockFreeAlways == TRUE

\* data_lock can be taken
LockFree == data_lock = 0

ThreadFrame(t) == UNCHANGED <<connVars, staticVars>>

\* a request arrives at thread t: POST /data, DELETE /data/id, GET /data/id
\* or GET /data
StartOp(t) ==
    /\ tpc[t] = "idle"
    /\ tdone < MaxOps
    /\ \E op \in {"create", "delete", "get", "list"}, id \in 0..NumThreads :
         /\ (id = 0) = (op \in {"create", "list"})
         /\ top' = [top EXCEPT ![t] = op]
         /\ targ' = [targ EXCEPT ![t] = id]
    /\ tpc' = [tpc EXCEPT ![t] = "lock"]
    /\ tlocal' = [tlocal EXCEPT ![t] = 0]
    /\ tidx' = [tidx EXCEPT ![t] = 0]
    /\ tdone' = tdone + 1
    /\ UNCHANGED <<tresult, storeVars>>
    /\ ThreadFrame(t)

\* the with block is entered without waiting for data_lock
AcquireWithoutWaiting(t) ==
    /\ tpc[t] = "lock"
    /\ data_lock' = t
    /\ tpc' = [tpc EXCEPT ![t] = "locked"]
    /\ UNCHANGED <<top, targ, tlocal, tidx, tresult, tdone, data_store, assigned>>
    /\ ThreadFrame(t)

\* with data_lock: (server.py:141, 163, 175, 198)
Acquire(t) ==
    /\ tpc[t] = "lock"
    /\ LockFree
    /\ data_lock' = t
    /\ tpc' = [tpc EXCEPT ![t] = "locked"]
    /\ UNCHANGED <<top, targ, tlocal, tidx, tresult, tdone, data_store, assigned>>
    /\ ThreadFrame(t)

\* new_id = len(data_store) + 1 (server.py:142)
CreateReadLen(t) ==
    /\ tpc[t] = "locked" /\ top[t] = "create"
    /\ tlocal' = [tlocal EXCEPT ![t] = NewId(data_store)]
    /\ tpc' = [tpc EXCEPT ![t] = "append"]
    /\ UNCHANGED <<top, targ, tidx, tresult, tdone, storeVars>>
    /\ ThreadFrame(t)

\* data_store.append(item) (server.py:143-144)
CreateAppend(t) ==
    /\ tpc[t] = "append"
    /\ data_store' = AppendItem(data_store, tlocal[t], Len(assigned) + 1)
    /\ assigned' = Append(assigned, tlocal[t])
    /\ tresult' = [tresult EXCEPT ![t] = 201]
    /\ tpc' = [tpc EXCEPT ![t] = "unlock"]
    /\ UNCHANGED <<top, targ, tlocal, tidx, tdone, data_lock>>
    /\ ThreadFrame(t)

\* the loops over data_store (server.py:164-170, 199-206): look at the
\* next item; a match ends the loop
ScanItem(t) ==
    /\ tpc[t] = "locked" /\ top[t] \in {"get", "delete"}
    /\ IF tidx[t] + 1 > Len(data_store)
       THEN /\ tresult' = [tresult EXCEPT ![t] = 404]
            /\ tpc' = [tpc EXCEPT ![t] = "unlock"]
            /\ UNCHANGED tidx
       ELSE IF data_store[tidx[t] + 1].id = targ[t]
       THEN /\ tidx' = [tidx EXCEPT ![t] = tidx[t] + 1]
            /\ tresult' = [tresult EXCEPT ![t] = 200]
            /\ tpc' = [tpc EXCEPT ![t] = IF top[t] = "delete" THEN "pop" ELSE "unlock"]
       ELSE /\ tidx' = [tidx EXCEPT ![t] = tidx[t] + 1]
            /\ UNCHANGED <<tresult, tpc>>
    /\ UNCHANGED <<top, targ, tlocal, tdone, storeVars>>
    /\ ThreadFrame(t)

\* data_store.pop(i) (server.py:201); an index past the end raises, which
\* dispatch_request turns into a 500
DeletePop(t) ==
    /\ tpc[t] = "pop"
    /\ IF tidx[t] <= Len(data_store)
       THEN data_store' = Pop(data_store, tidx[t]) /\ UNCHANGED tresult
       ELSE tresult' = [tresult EXCEPT ![t] = 500] /\ UNCHANGED data_store
    /\ tpc' = [tpc EXCEPT ![t] = "unlock"]
    /\ UNCHANGED <<top, targ, tlocal, tidx, tdone, data_lock, assigned>>
    /\ ThreadFrame(t)

\* json.dumps(data_store) (server.py:176-180)
ListRead(t) ==
    /\ tpc[t] = "locked" /\ top[t] = "list"
    /\ tlocal' = [tlocal EXCEPT ![t] = Len(data_store)]
    /\ tresult' = [tresult EXCEPT ![t] = 200]
    /\ tpc' = [tpc EXCEPT ![t] = "unlock"]
    /\ UNCHANGED <<top, targ, tidx, tdone, storeVars>>
    /\ ThreadFrame(t)

\* leaving the with block; the handler returns
Release(t) ==
    /\ tpc[t] = "unlock"
    /\ data_lock' = IF data_lock = t THEN 0 ELSE data_lock
    /\ tpc' = [tpc EXCEPT ![t] = "idle"]
    /\ UNCHANGED <<top, targ, tlocal, tidx, tresult, tdone, data_store, assigned>>
    /\ ThreadFrame(t)

(***************************************************************************)
(* GET /static/... for SpecStatic (server.py:251-254, 212-223)             *)
(***************************************************************************)
PathTokens == {"/", "..", ".", "a", "%2e%2e", "%2f"}

\* the texts of at most n tokens in which, once decoded, no two pieces of
\* text stand side by side (they would be one piece)
Tails(n) ==
    LET all == UNION {[1..k -> PathTokens] : k \in 0..n}
    IN  {s \in all : \A i \in 1..(Len(s) - 1) :
                        UnquoteTok(s[i]) = "/" \/ UnquoteTok(s[i + 1]) = "/"}

\* the directory levels a relative path climbs and descends, resolved from
\* the working directory; a leading ".." is a level above it
Resolved(path) == NormComps(PathParts(path), <<>>, 0)

\* path names a place in or below ./static
InsideStaticRoot(path) ==
    /\ ~StartsWith(path, <<"/">>)
    /\ Resolved(path) # <<>>
    /\ Resolved(path)[1] = "static"

\* dispatch_request routes the target to handle_static, which computes the
\* path it tests with os.path.isfile and opens
StaticRequest ==
    /\ spc = "start"
    /\ ~UrlParseRaises(starget)
    /\ StartsWith(PathOnly(starget), <<"/", "static", "/">>)
    /\ subpath' = StaticSubpath(PathOnly(starget))
    /\ safe_path' = SafePath(StaticSubpath(PathOnly(starget)))
    /\ full_path' = FullPath(StaticSubpath(PathOnly(starget)))
    /\ spc' = "done"
    /\ UNCHANGED <<starget, connVars, storeVars, threadVars>>

(***************************************************************************)
(* Specifications                                                          *)
(***************************************************************************)
ConnInit ==
    /\ pc = "recv_headers"
    /\ keep_alive_requests = 0
    /\ data = 0
    /\ request_line = <<>>
    /\ version = ""
    /\ headers = <<>>
    /\ content_length = 0
    /\ rest = 0
    /\ body = 0
    /\ to_read = 0
    /\ resp = 0
    /\ err = "none"
    /\ readSends = 0
    /\ readDispatched = FALSE
    /\ answered = 0
    /\ closes = 0

StoreInit ==
    /\ data_store = <<>>
    /\ data_lock = 0
    /\ assigned = <<>>

ThreadsInit ==
    /\ tpc = [t \in Threads |-> "idle"]
    /\ top = [t \in Threads |-> "none"]
    /\ targ = [t \in Threads |-> 0]
    /\ tlocal = [t \in Threads |-> 0]
    /\ tidx = [t \in Threads |-> 0]
    /\ tresult = [t \in Threads |-> 0]
    /\ tdone = 0

StaticInit ==
    /\ spc = "start"
    /\ starget = <<"/", "static", "/">>
    /\ subpath = <<>>
    /\ safe_path = <<>>
    /\ full_path = <<>>

\* one connection served by handle_client
Init == ConnInit /\ StoreInit /\ ThreadsInit /\ StaticInit

Next ==
    \/ RecvHeadersTimeout
    \/ RecvHeadersPeerClosed
    \/ RecvHeadersFault
    \/ RecvHeadersChunk
    \/ RecvBodyFails
    \/ RecvBodyChunk
    \/ ParseAndDispatch
    \/ SendOptions
    \/ SendResp
    \/ SendRespFails
    \/ SendError
    \/ Close

Spec == Init /\ [][Next]_vars

\* connection threads on the shared store
NextStore ==
    \E t \in Threads :
        \/ StartOp(t)
        \/ Acquire(t)
        \/ CreateReadLen(t)
        \/ CreateAppend(t)
        \/ ScanItem(t)
        \/ DeletePop(t)
        \/ ListRead(t)
        \/ Release(t)

\* every call handle_client makes returns or raises: a recv that gets no
\* data ends with the timeout set at server.py:72 or with end-of-stream, a
\* body recv returns bytes or fails, dispatch_request returns once it has
\* the lock it waits for, sendall returns or raises, close returns
SpecLive ==
    /\ Init /\ [][Next]_vars
    /\ WF_vars(RecvHeadersTimeout \/ RecvHeadersPeerClosed)
    /\ WF_vars(RecvBodyChunk \/ RecvBodyFails)
    /\ WF_vars(ParseAndDispatch)
    /\ WF_vars(SendOptions \/ SendResp \/ SendRespFails \/ SendError)
    /\ WF_vars(Close)

SpecStore == Init /\ [][NextStore]_vars

\* GET requests under /static/
InitStatic ==
    /\ ConnInit /\ StoreInit /\ ThreadsInit
    /\ spc = "start"
    /\ starget \in {<<"/", "static", "/">> \o tail : tail \in Tails(MaxPathLen)}
    /\ subpath = <<>>
    /\ safe_path = <<>>
    /\ full_path = <<>>

NextStatic == StaticRequest

SpecStatic == InitStatic /\ [][NextStatic]_vars

(***************************************************************************)
(* Requests dispatched one after another on the shared store, whichever    *)
(* connection they arrive on, for SpecDispatch                             *)
(***************************************************************************)
DispatchMethods == {"GET", "POST", "PUT", "DELETE", "PATCH", "OPTIONS"}

DispatchTargets ==
    { <<"/">>,
      <<"/", "echo">>,
      <<"/", "echoes">>,
      <<"/", "static", "/", "a">>,
      <<"/", "data">>,
      <<"/", "data", "/">>,
      <<"/", "data", "/", "1">>,
      <<"/", "data", "/", "2">>,
      <<"/", "data", "/", "abc">>,
      <<"/", "data", "/", "1", "/", "2">>,
      <<"/", "data", "?", "x">>,
      <<"/", "nope">>,
      <<"/", "/", "[">> }

DispatchLines == {<<m, t, "HTTP/1.1">> : m \in DispatchMethods, t \in DispatchTargets}

DispatchHeaders ==
    {BuildHeaders(t, <<>>) : t \in ContentTypeLines}

\* recv_request returns a request whose body has b bytes (server.py:278-281)
RequestReturned(rl, h, b) ==
    /\ request_line' = rl
    /\ headers' = h
    /\ content_length' = b
    /\ rest' = b
    /\ body' = b

\* the response is written and the next request is read, on this
\* connection or on another one (server.py:348-349, 277-281)
NextRequest ==
    /\ pc \in {"send_resp", "send_options"}
    /\ Len(assigned) < MaxCreated
    /\ \E rl \in DispatchLines, h \in DispatchHeaders, b \in 0..1 : RequestReturned(rl, h, b)
    /\ pc' = "parse"
    /\ resp' = 0
    /\ readDispatched' = FALSE
    /\ UNCHANGED <<keep_alive_requests, data, version, to_read, err, readSends, answered, closes>>
    /\ UNCHANGED <<storeVars, threadVars, staticVars>>

InitDispatch ==
    /\ StoreInit /\ ThreadsInit /\ StaticInit
    /\ pc = "parse"
    /\ \E rl \in DispatchLines, h \in DispatchHeaders, b \in 0..1 :
         /\ request_line = rl
         /\ headers = h
         /\ content_length = b
         /\ rest = b
         /\ body = b
    /\ keep_alive_requests = 0
    /\ data = 0
    /\ version = ""
    /\ to_read = 0
    /\ resp = 0
    /\ err = "none"
    /\ readSends = 0
    /\ readDispatched = FALSE
    /\ answered = 0
    /\ closes = 0

NextDispatch ==
    \/ ParseAndDispatch
    \/ NextRequest

SpecDispatch == InitDispatch /\ [][NextDispatch]_vars

(***************************************************************************)
(* Properties                                                              *)
(***************************************************************************)
\* Connection values that read "close" / "keep-alive" whatever their case
IsCloseValue(v) == v \in {"close", "Close", "CLOSE"}

IsKeepAliveValue(v) == v \in {"keep-alive", "Keep-Alive", "KEEP-ALIVE"}

ConnectionSent == HeaderGet(headers, "Connection", "")

\* C1: once the request counter has reached MAX_KEEP_ALIVE_REQUESTS the
\* connection is being closed or closed, whatever version and Connection
\* header the request had, and never more than MAX_KEEP_ALIVE_REQUESTS
\* requests are answered on a connection.
C1_CapClosesConnection ==
    /\ keep_alive_requests <= MAX_KEEP_ALIVE_REQUESTS
    /\ answered <= MAX_KEEP_ALIVE_REQUESTS
    /\ keep_alive_requests >= MAX_KEEP_ALIVE_REQUESTS => pc \in {"close", "closed"}

\* the cap closed a connection whose last request asked for keep-alive
C1_Witness ==
    /\ pc = "closed"
    /\ keep_alive_requests = MAX_KEEP_ALIVE_REQUESTS
    /\ answered = MAX_KEEP_ALIVE_REQUESTS
    /\ version = "HTTP/1.1"
    /\ ConnectionSent = "keep-alive"
    /\ closes = 1

\* C2: a response to a request whose Connection header is "close" in any
\* case is followed by closing the connection, under either version and at
\* any request count; closing leads to closed, and closed is never left.
C2_ConnectionCloseCloses ==
    [][/\ (pc \in {"send_resp", "send_options"} /\ IsCloseValue(ConnectionSent))
            => pc' = "close"
       /\ pc = "close" => (pc' = "closed" /\ closes' = closes + 1)
       /\ pc = "closed" => pc' = "closed"]_vars

\* an answered HTTP/1.1 request with "Connection: Close" ended the connection
C2_Witness ==
    /\ pc = "closed"
    /\ ConnectionSent = "Close"
    /\ version = "HTTP/1.1"
    /\ err = "none"
    /\ keep_alive_requests = 1
    /\ answered = 1
    /\ closes = 1

\* C3: after an HTTP/1.0 request is answered the connection is closed when
\* its Connection header is not keep-alive, and the next request is awaited
\* when it is keep-alive and the cap is not reached; an HTTP/1.1 request
\* without a Connection header is kept alive below the cap.
C3_VersionDecidesKeepAlive ==
    [][(pc \in {"send_resp", "send_options"}
            /\ keep_alive_requests' = keep_alive_requests + 1)
         => /\ (version = "HTTP/1.0" /\ ~IsKeepAliveValue(ConnectionSent))
                 => pc' = "close"
            /\ (/\ version = "HTTP/1.0"
                /\ IsKeepAliveValue(ConnectionSent)
                /\ keep_alive_requests' < MAX_KEEP_ALIVE_REQUESTS)
                 => pc' = "recv_headers"
            /\ (/\ version = "HTTP/1.1"
                /\ "Connection" \notin DOMAIN headers
                /\ keep_alive_requests' < MAX_KEEP_ALIVE_REQUESTS)
                 => pc' = "recv_headers"]_vars

\* the server awaits a second request after answering an HTTP/1.0 one
C3_Witness ==
    /\ pc = "recv_headers"
    /\ version = "HTTP/1.0"
    /\ keep_alive_requests = 1
    /\ answered = 1

\* C4: when recv_request returns, the body has exactly the declared
\* Content-Length bytes (0 when the header is absent), however the bytes
\* were split into chunks and whatever follows the header terminator.
C4_BodyHasDeclaredLength ==
    pc = "parse" => body = content_length

\* C5: a declared Content-Length above MAX_REQUEST_SIZE ends recv_request
\* with the body-too-large error before the body loop: no body byte is read
\* by it, fewer bytes than declared were read past the headers, and the
\* request is not dispatched.
C5_OversizedBodyRejected ==
    content_length > MAX_REQUEST_SIZE =>
        /\ err = "body_too_large"
        /\ pc \in {"send_400", "close", "closed"}
        /\ body = 0
        /\ to_read = 0
        /\ rest < content_length
        /\ ~readDispatched

\* a request declaring one byte too many was refused and the connection closed
C5_Witness ==
    /\ pc = "closed"
    /\ err = "body_too_large"
    /\ content_length = MAX_REQUEST_SIZE + 1
    /\ readSends = 1

\* C6: a read that ends in an idle timeout or in the peer closing the
\* stream leads to closing with no sendall for that read.
C6_SilentClose ==
    err \in {"timeout", "peer_closed"} =>
        /\ pc \in {"close", "closed"}
        /\ readSends = 0
        /\ resp = 0

\* a kept-alive connection timed out waiting for its second request
C6_Witness ==
    /\ pc = "closed"
    /\ err = "timeout"
    /\ keep_alive_requests = 1
    /\ readSends = 0
    /\ closes = 1

\* C7: a read that fails with oversized headers, an over-limit declared
\* body length or a request line of fewer than two tokens gets one 400
\* attempt and then the close; the request is not dispatched and no further
\* request is read.
C7_FramingError400 ==
    err \in {"headers_too_large", "body_too_large", "malformed_line"} =>
        /\ pc \in {"send_400", "close", "closed"}
        /\ resp = 400
        /\ readSends = (IF pc = "send_400" THEN 0 ELSE 1)
        /\ ~readDispatched

\* oversized headers were answered once and the connection closed
C7_Witness ==
    /\ pc = "closed"
    /\ err = "headers_too_large"
    /\ readSends = 1
    /\ closes = 1

\* C8: while no record has been deleted, the ids handed out are 1, 2, ...
\* in order, each once, and the collection holds exactly those records;
\* threads that have finished a create hold different ids.
C8_ConcurrentCreatesSequential ==
    Len(assigned) = Len(data_store) =>
        /\ \A i \in 1..Len(assigned) : assigned[i] = i /\ data_store[i].id = i
        /\ \A t, u \in Threads :
             (/\ t # u
              /\ top[t] = "create" /\ tpc[t] \in {"unlock", "idle"}
              /\ top[u] = "create" /\ tpc[u] \in {"unlock", "idle"})
                => tlocal[t] # tlocal[u]

\* every thread has served one create, and nothing else was requested
C8_Witness ==
    /\ \A t \in Threads : tpc[t] = "idle" /\ top[t] = "create" /\ tresult[t] = 201
    /\ tdone = NumThreads
    /\ Len(data_store) = NumThreads
    /\ {tlocal[t] : t \in Threads} = 1..NumThreads

\* C9: no id is handed out twice, deleted records included, and no two
\* records of the collection share an id.
C9_IdsNeverReused ==
    /\ \A i, j \in 1..Len(assigned) : i # j => assigned[i] # assigned[j]
    /\ \A i, j \in 1..Len(data_store) : i # j => data_store[i].id # data_store[j].id

\* C10: the path handle_static tests and opens for a GET under /static/
\* lies inside the static root.
C10_StaticStaysInRoot ==
    spc = "done" => InsideStaticRoot(full_path)

\* C11: a sendall of a request's response that fails, for a dispatched
\* response and for the 204 of OPTIONS alike, leads to the close without
\* the request counter being incremented.
C11_WriteFailureCloses ==
    [][(pc \in {"send_resp", "send_options"} /\ answered' = answered)
         => (pc' = "close" /\ keep_alive_requests' = keep_alive_requests)]_vars

\* C12: conn.close() is called once, by the step that ends the handler, on
\* every way out of the loop; nothing happens on the connection after that.
C12_ClosedOnceAndTerminal ==
    [][/\ pc # "closed"
       /\ closes' # closes => (pc = "close" /\ pc' = "closed" /\ closes = 0 /\ closes' = 1)
       /\ pc' = "closed" => (pc = "close" /\ closes' = 1)]_vars

\* a connection whose response could not be written was closed, once
C12_Witness ==
    /\ pc = "closed"
    /\ err = "write_failure"
    /\ closes = 1
    /\ keep_alive_requests = 0

\* thread t is inside a with data_lock: block
InLockedRegion(t) == tpc[t] \in {"locked", "append", "pop", "unlock"}

\* C13: every step of create, list, get and delete that reads or changes
\* data_store is taken by the thread that holds data_lock, no other thread
\* is inside a locked block at that moment, and the collection changes in
\* no other step.
C13_StoreAccessUnderLock ==
    [][/\ \A t \in Threads :
            (tpc[t] \in {"locked", "append", "pop"} /\ <<tpc[t], tidx[t]>>' # <<tpc[t], tidx[t]>>)
               => /\ data_lock = t
                  /\ \A u \in Threads \ {t} : ~InLockedRegion(u)
       /\ data_store' # data_store
            => \E t \in Threads : data_lock = t /\ tpc[t] \in {"append", "pop"} /\ tpc'[t] = "unlock"
      ]_vars

\* a delete is about to pop its record while a create waits for the lock
C13_Witness ==
    \E t, u \in Threads :
        /\ tpc[t] = "pop" /\ top[t] = "delete" /\ data_lock = t
        /\ tpc[u] = "lock" /\ top[u] = "create"

\* the value of the Content-Length header of h as sent, if there is one
DeclaredText(h) == HeaderGet(h, "Content-Length", "absent")

\* recv_request has split off the header block and looks at Content-Length
HeaderBlockParsed ==
    /\ pc = "recv_headers"
    /\ pc' \in {"parse", "recv_body"} \/ err' \in {"bad_content_length", "body_too_large"}

\* C14 as stated: with Content-Length absent or not a number, the declared
\* length is 0 and the request is returned for dispatch; recv_request does
\* not fail.
C14_LenientContentLength ==
    [][(HeaderBlockParsed /\ DeclaredText(headers') \notin Numerals)
         => (pc' = "parse" /\ content_length' = 0 /\ err' = "none")]_vars

\* C14 amended: with Content-Length absent the declared length is 0 and the
\* request is returned for dispatch with the bytes already read after the
\* header block as its body, no more being read; with a Content-Length that
\* is not a number recv_request fails and the connection is answered 400
\* once and closed, nothing being dispatched.
C14_ContentLengthAbsentOrMalformed ==
    [][/\ (HeaderBlockParsed /\ DeclaredText(headers') = "absent")
            => (pc' = "parse" /\ content_length' = 0 /\ err' = "none" /\ body' = rest')
       /\ (HeaderBlockParsed /\ DeclaredText(headers') \notin Numerals \cup {"absent"})
            => (pc' = "send_400" /\ err' = "bad_content_length" /\ resp' = 400)
       /\ err' = "bad_content_length"
            => /\ pc' \in {"send_400", "close", "closed"}
               /\ ~readDispatched'
               /\ readSends' = (IF pc' = "send_400" THEN 0 ELSE 1)
      ]_vars

\* a request with Content-Length: abc was answered 400 and the connection
\* closed; nothing reached the dispatcher
C14_Witness ==
    /\ pc = "closed"
    /\ err = "bad_content_length"
    /\ DeclaredText(headers) = "abc"
    /\ resp = 400
    /\ readSends = 1
    /\ ~readDispatched

\* the request being dispatched, as the client sent it
ReqMethod == request_line[1]

ReqPath == PathOnly(request_line[2])

ReqParts == PathParts(ReqPath)

\* dispatch_request is called and its response is about to be sent
Dispatched == pc = "parse" /\ pc' = "send_resp"

\* the route the path matches, in the order the routes are tried
RouteOf(path_only) ==
    IF path_only = <<"/">> THEN "root"
    ELSE IF Len(path_only) >= 2 /\ path_only[1] = "/" /\ path_only[2] \in {"echo", "echoes"}
    THEN "echo"
    ELSE IF StartsWith(path_only, <<"/", "static", "/">>) THEN "static"
    ELSE IF PathParts(path_only) # <<>> /\ PathParts(path_only)[1] = "data" THEN "data"
    ELSE "none"

AllowedMethods(route) ==
    IF route = "data" THEN {"GET", "DELETE", "POST", "PUT"} ELSE {"GET"}

\* C15: a request whose path matches a route and whose method is outside
\* the route's allowed set is answered 405.
C15_WrongMethod405 ==
    [][(/\ Dispatched
        /\ ~UrlParseRaises(request_line[2])
        /\ RouteOf(ReqPath) # "none"
        /\ ReqMethod \notin AllowedMethods(RouteOf(ReqPath)))
          => resp' = 405]_vars

\* the indices of the records of store whose id is the text tok
Matches(store, tok) == {i \in 1..Len(store) : ToString(store[i].id) = tok}

\* store without its record at index i, the others in their order
Without(store, i) ==
    SubSeq(store, 1, i - 1) \o SubSeq(store, i + 1, Len(store))

\* C16: DELETE /data/{id} removes the first record with that id and keeps
\* the others in their order; with no such record it answers 404, with no
\* id or one that is no number 400, the collection being left as it was.
C16_DeleteFirstMatch ==
    [][(Dispatched /\ ReqMethod = "DELETE" /\ RouteOf(ReqPath) = "data")
         => /\ (Len(ReqParts) = 2 /\ Matches(data_store, ReqParts[2]) # {})
                 => /\ resp' = 200
                    /\ \E i \in Matches(data_store, ReqParts[2]) :
                         /\ \A j \in Matches(data_store, ReqParts[2]) : i <= j
                         /\ data_store' = Without(data_store, i)
            /\ (Len(ReqParts) = 2 /\ ReqParts[2] \in Numerals /\ Matches(data_store, ReqParts[2]) = {})
                 => (resp' = 404 /\ data_store' = data_store)
            /\ (Len(ReqParts) = 1 \/ (Len(ReqParts) = 2 /\ ReqParts[2] \notin Numerals))
                 => (resp' = 400 /\ data_store' = data_store)
      ]_vars

\* DELETE /data/2 removed the first of two records with id 2: the one
\* created later is still there
C16_Witness ==
    /\ pc = "send_resp"
    /\ ReqMethod = "DELETE"
    /\ ReqPath = <<"/", "data", "/", "2">>
    /\ resp = 200
    /\ Len(data_store) = 1
    /\ data_store[1].id = 2
    /\ data_store[1].payload = 3

\* C17: a POST or PUT is answered by the create handler only through the
\* exact-path /data check; no POST or PUT whose path is another one under
\* data gets there.
C17_FallbackUnreachable ==
    [][(Dispatched /\ ReqMethod \in {"POST", "PUT"} /\ ReqPath # <<"/", "data">>)
         => (resp' # 201 /\ data_store' = data_store)]_vars

\* C18: dispatch_request returns a response for every request handed to
\* it; no exception leaves it.
C18_DispatchNeverRaises ==
    (pc = "parse" /\ Len(request_line) >= 2 /\ Method(request_line) # "OPTIONS")
        => \A env \in Envs :
              ~dispatch_request(Method(request_line), request_line[2], headers, body,
                                data_store, assigned, env).raised

\* method tokens that read OPTIONS whatever their case
IsOptionsToken(tok) == tok \in {"OPTIONS", "options", "Options"}

\* C19: an OPTIONS request, whatever its target, gets a 204 from
\* handle_client without dispatch_request being called and without a change
\* to the collection; whether the 204 could be written or not, the request
\* is counted and the connection kept or closed by version, Connection
\* header and cap as after any response.
C19_OptionsBypassesDispatch ==
    [][/\ (pc = "parse" /\ Len(request_line) >= 2 /\ IsOptionsToken(request_line[1]))
            => /\ pc' = "send_options"
               /\ resp' = 204
               /\ ~readDispatched'
               /\ <<data_store, assigned>>' = <<data_store, assigned>>
       /\ pc = "send_options"
            => /\ IsOptionsToken(request_line[1])
               /\ keep_alive_requests' = keep_alive_requests + 1
               /\ <<data_store, assigned>>' = <<data_store, assigned>>
               /\ pc' \in {"close", "recv_headers"}
               /\ (pc' = "close") =
                     (\/ keep_alive_requests + 1 >= MAX_KEEP_ALIVE_REQUESTS
                      \/ IsCloseValue(ConnectionSent)
                      \/ (version = "HTTP/1.0" /\ ~IsKeepAliveValue(ConnectionSent)))
      ]_vars

\* a lower-case options on /data/1 was answered 204 as the second request
\* of its connection, which the cap then closed
C19_Witness ==
    /\ pc = "closed"
    /\ Len(request_line) = 3
    /\ request_line[1] = "options"
    /\ request_line[2] = <<"/", "data", "/", "1">>
    /\ resp = 204
    /\ ~readDispatched
    /\ keep_alive_requests = MAX_KEEP_ALIVE_REQUESTS
    /\ ConnectionSent = "keep-alive"
    /\ err = "none"

\* C20: handle_client reaches the end of its finally block: the connection
\* is closed in the end, whatever the client sends.
C20_EventuallyClosed == <>(pc = "closed")

\* the peer went away in the middle of the body of a later request
C20_Witness ==
    /\ pc = "closed"
    /\ err = "peer_closed"
    /\ keep_alive_requests = 1
    /\ content_length > 0
    /\ to_read > 0

====
